---- MODULE Spec2Model ----
(***************************************************************************)
(* Model of com.atproto.server.createAccount                               *)
(* (packages/pds/src/api/com/atproto/server/createAccount.ts).             *)
(*                                                                         *)
(* Every request runs the handler's steps in order: ensureValidHandle,     *)
(* then either the caller-supplied-DID branch (resolve, validate) or the   *)
(* mint branch (format the creation operation), then one database          *)
(* transaction: invite check, registerUser, sendOperation, invite_code_use *)
(* insert, createRepo, grantRefreshToken, commit.  Requests interleave at  *)
(* every await.                                                            *)
(*                                                                         *)
(* Rows written inside a transaction carry the writing request in txn;     *)
(* a commit rewrites it to 0 (durable), a rollback deletes the rows.       *)
(***************************************************************************)
EXTENDS Integers, FiniteSets, Sequences, TLC

\* ------------------------------------------------------------------ bounds
NumReqs == 2
MaxUses == 1

Reqs == 1..NumReqs
Durable == 0

\* ------------------------------------------------------- node context (ctx)
PublicUrl == "https://pds.test"
OtherUrl == "https://other.test"
RepoSigningKey == "did:key:repoSigning"
PlcRotationKey == "did:key:plcRotation"
CfgRecoveryKey == "did:key:cfgRecovery"
OtherKey == "did:key:other"
UserRecoveryKey == "did:key:userRecovery"
AvailableUserDomains == {<<"test">>}
ReservedSubdomains == {"admin"}

\* ---------------------------------------------------------------- "absent"
NoCode == ""
NoKey == ""
NoHandle == <<>>
NoDid == [method |-> "", id |-> <<>>]
NoOp == [type |-> "none", signingKey |-> "", rotationKeys |-> <<>>,
         handle |-> <<>>, pds |-> "", signer |-> ""]
NoErr == [class |-> "none", name |-> "", msg |-> "", handle |-> <<>>, email |-> ""]
NoInvite == [found |-> FALSE, availableUses |-> 0, disabled |-> FALSE]

\* ----------------------------------------------------------------- handles
\* A handle is its sequence of labels: <<"alice", "test">> is alice.test.
LowerLabel(l) ==
  CASE l = "Alice" -> "alice"
    [] l = "Test" -> "test"
    [] OTHER -> l

BadLabels == {"al!ce"}

normalizeHandle(h) == [i \in 1..Len(h) |-> LowerLabel(h[i])]

IsSuffix(d, h) ==
  /\ Len(d) <= Len(h)
  /\ \A i \in 1..Len(d) : h[Len(h) - Len(d) + i] = d[i]

\* The outcome of ident.normalizeAndEnsureValidHandle followed by
\* ident.ensureHandleServiceConstraints: "ok" or the class of the error thrown.
HandleCheck(raw) ==
  LET h == normalizeHandle(raw) IN
  IF Len(h) < 2 \/ \E i \in 1..Len(h) : h[i] \in BadLabels
    THEN "InvalidHandleError"
  ELSE IF ~ \E d \in AvailableUserDomains : IsSuffix(d, h)
    THEN "UnsupportedDomainError"
  ELSE LET d == CHOOSE x \in AvailableUserDomains : IsSuffix(x, h) IN
       IF Len(h) - Len(d) > 1 THEN "InvalidHandleError"
       ELSE IF h[1] \in ReservedSubdomains THEN "ReservedHandleError"
       ELSE "ok"

\* -------------------------------------------------------------------- DIDs
PlcDid == [method |-> "plc", id |-> <<"u1">>]
WebDid == [method |-> "web", id |-> <<"u2">>]
Dids == {PlcDid, WebDid}

\* didData.did.startsWith('did:plc:')
IsPlc(d) == d.method = "plc"

VARIABLES
  inviteRequired,  \* ctx.cfg.inviteRequired
  dialect,         \* dbTxn.dialect
  inviteTable,     \* table invite_code: code -> row
  directory,       \* what the DID resolver and the PLC client return for a DID
  input,           \* input.body of each request
  pc,              \* each request's position in the handler
  handle,          \* const handle
  resolvedHandleDid, \* const resolvedHandleDid (ensureValidHandle)
  did,             \* let did
  plcCreateOp,     \* let plcCreateOp
  didData,         \* const didData (with the rotation keys of getDocumentData)
  invite,          \* const invite (the selected invite_code row)
  err,             \* the error the request failed with
  txnState,        \* "none", "open", "committed", "aborted"
  accounts,        \* account rows
  uses,            \* invite_code_use rows
  repos,           \* repository roots
  tokens,          \* refresh-token rows
  plcOps,          \* operations the external registry accepted
  sendAttempts,    \* calls of ctx.plcClient.sendOperation made by each request
  lockHolder,      \* invite_code row locks (FOR UPDATE)
  dbMutex          \* the single connection of the sqlite dialect

cfgVars == <<inviteRequired, dialect, inviteTable, directory, input>>
reqVars == <<pc, handle, resolvedHandleDid, did, plcCreateOp, didData, invite, err, txnState>>
dbVars == <<accounts, uses, repos, tokens, lockHolder, dbMutex>>
vars == <<cfgVars, reqVars, dbVars, plcOps, sendAttempts>>


\* ------------------------------------------------------------ input domains
Codes == {"CODE-1"}
AbsentCode == "CODE-X"
Emails == {"a@x.com", "b@x.com"}
AliceTest == <<"alice", "test">>
BobTest == <<"bob", "test">>
ZedTest == <<"zed", "test">>
RawHandles == {AliceTest, <<"Alice", "Test">>, <<"admin", "test">>,
               <<"al!ce", "test">>, <<"carol", "ext">>}

NoInput == [email |-> "", handle |-> <<>>, inviteCode |-> NoCode,
            did |-> NoDid, recoveryKey |-> NoKey]

\* Requests of the concurrent workload: registrations that mint a DID and one that
\* brings its own DID, all of them presenting the invite code.
MintInputs == [email : Emails, handle : {AliceTest, BobTest},
               inviteCode : Codes,
               did : {NoDid}, recoveryKey : {NoKey}]
AdoptInput == [email |-> "a@x.com", handle |-> AliceTest, inviteCode |-> "CODE-1",
               did |-> PlcDid, recoveryKey |-> NoKey]
ConcInputs == MintInputs \cup {AdoptInput}

\* Requests of the single-request workload: every combination of the fields.
RichInputs == [email : {"a@x.com"}, handle : RawHandles,
               inviteCode : {NoCode, AbsentCode} \cup Codes,
               did : {NoDid} \cup Dids, recoveryKey : {NoKey, UserRecoveryKey}]

\* ------------------------------------------ the external DID directory's state
\* resolves: resolveAtpData returns (else it throws); did: the DID its answer
\* carries, the DID it was asked for; plcResolves: getDocumentData returns (else
\* it throws).
DefaultEntry == [resolves |-> FALSE, did |-> NoDid, signingKey |-> OtherKey,
                 handle |-> ZedTest, pds |-> OtherUrl, plcResolves |-> TRUE,
                 rotationKeys |-> <<OtherKey>>]

Entries == [resolves : BOOLEAN, did : Dids, signingKey : {RepoSigningKey, OtherKey},
            handle : {AliceTest, ZedTest}, pds : {PublicUrl, OtherUrl},
            plcResolves : BOOLEAN,
            rotationKeys : {<<CfgRecoveryKey, PlcRotationKey>>, <<OtherKey>>}]

EntriesFor(d) ==
  {DefaultEntry} \cup
  {e \in Entries :
     /\ e.resolves
     /\ e.did = d
     /\ ~IsPlc(d) => (e.plcResolves /\ e.rotationKeys = <<OtherKey>>)
     /\ ~e.plcResolves => e.rotationKeys = <<OtherKey>>}

ConcDirectory ==
  [d \in Dids |->
     [resolves |-> TRUE, did |-> d, signingKey |-> RepoSigningKey, handle |-> AliceTest,
      pds |-> PublicUrl, plcResolves |-> TRUE,
      rotationKeys |-> <<CfgRecoveryKey, PlcRotationKey>>]]

InviteRows == [availableUses : 0..MaxUses, disabled : BOOLEAN]

\* ------------------------------------------------------------------- Init
InitRequests ==
  /\ pc = [r \in Reqs |-> IF input[r] = NoInput THEN "idle" ELSE "start"]
  /\ handle = [r \in Reqs |-> NoHandle]
  /\ resolvedHandleDid = [r \in Reqs |-> NoDid]
  /\ did = [r \in Reqs |-> NoDid]
  /\ plcCreateOp = [r \in Reqs |-> NoOp]
  /\ didData = [r \in Reqs |-> DefaultEntry]
  /\ invite = [r \in Reqs |-> NoInvite]
  /\ err = [r \in Reqs |-> NoErr]
  /\ txnState = [r \in Reqs |-> "none"]

InitStore ==
  /\ accounts = {}
  /\ uses = {}
  /\ repos = {}
  /\ tokens = {}
  /\ plcOps = {}
  /\ sendAttempts = [r \in Reqs |-> 0]
  /\ lockHolder = [c \in Codes |-> 0]
  /\ dbMutex = 0

InitConfig ==
  /\ inviteRequired \in BOOLEAN
  /\ dialect \in {"pg", "sqlite"}
  /\ inviteTable \in [Codes -> InviteRows]

\* Requests are interchangeable, so of the workloads that differ only in which
\* request carries which input, the one with its inputs in rank order is taken.
InputRank(in) ==
  (IF in.email = "a@x.com" THEN 0 ELSE 1) + (IF in.handle = AliceTest THEN 0 ELSE 2)
  + (IF in.did = NoDid THEN 0 ELSE 4)

\* Concurrent registrations against a fresh node whose invite code is enabled.
Init ==
  /\ inviteRequired \in BOOLEAN
  /\ dialect \in {"pg", "sqlite"}
  /\ inviteTable \in [Codes -> [availableUses : 1..MaxUses, disabled : {FALSE}]]
  /\ directory = ConcDirectory
  /\ input \in {f \in [Reqs -> ConcInputs] :
                  \A r \in Reqs \ {NumReqs} : InputRank(f[r]) <= InputRank(f[r + 1])}
  /\ InitRequests
  /\ InitStore

\* An account registered on the node before the requests of the model (by 0),
\* with the handle the requests ask for and an email and a DID of its own.
ExistingDid == [method |-> "plc", id |-> <<"u0">>]
ExistingAccount ==
  [did |-> ExistingDid, handle |-> AliceTest, email |-> "z@x.com",
   txn |-> Durable, by |-> 0]
ExistingRow == [did |-> ExistingDid, txn |-> Durable, by |-> 0]

\* One registration, every input and every state of the DID directory, on a node
\* that is fresh or holds the existing account.
InitOne ==
  /\ InitConfig
  /\ input \in {[r \in Reqs |-> IF r = 1 THEN i ELSE NoInput] : i \in RichInputs}
  /\ directory \in {[d \in Dids |-> IF d = input[1].did THEN e ELSE DefaultEntry] :
                      e \in EntriesFor(input[1].did)}
  /\ InitRequests
  /\ \E fresh \in BOOLEAN :
       /\ accounts = IF fresh THEN {} ELSE {ExistingAccount}
       /\ repos = IF fresh THEN {} ELSE {ExistingRow}
       /\ tokens = IF fresh THEN {} ELSE {ExistingRow}
  /\ uses = {}
  /\ plcOps = {}
  /\ sendAttempts = [r \in Reqs |-> 0]
  /\ lockHolder = [c \in Codes |-> 0]
  /\ dbMutex = 0


\* ----------------------------------------------------------------- errors
InvalidRequestError(name, msg) ==
  [class |-> "InvalidRequestError", name |-> name, msg |-> msg,
   handle |-> <<>>, email |-> ""]

\* An error of a collaborator that the handler lets through unchanged.
Thrown(class, msg) ==
  [class |-> class, name |-> "", msg |-> msg, handle |-> <<>>, email |-> ""]

HandleTaken(h) ==
  [class |-> "InvalidRequestError", name |-> "", msg |-> "Handle already taken",
   handle |-> h, email |-> ""]

EmailTaken(e) ==
  [class |-> "InvalidRequestError", name |-> "", msg |-> "Email already taken",
   handle |-> <<>>, email |-> e]

\* ------------------------------------------------------- ensureValidHandle
\* resolved is what resolveExternalHandle returns for input.handle (NoDid: nothing).
\* The result is [ok, handle, err]: the handle returned or the error thrown.
ensureValidHandle(in, resolved) ==
  LET check == HandleCheck(in.handle)
      fail(e) == [ok |-> FALSE, handle |-> NoHandle, err |-> e]
  IN
  IF check = "ok"
    THEN [ok |-> TRUE, handle |-> normalizeHandle(in.handle), err |-> NoErr]
  ELSE IF check = "InvalidHandleError"
    THEN fail(InvalidRequestError("InvalidHandle", "invalid handle"))
  ELSE IF check = "ReservedHandleError"
    THEN fail(InvalidRequestError("HandleNotAvailable", "Reserved handle"))
  ELSE \* UnsupportedDomainError
    IF in.did = NoDid
      THEN fail(InvalidRequestError("UnsupportedDomain", "Not a supported handle domain"))
    ELSE IF in.did # resolved
      THEN fail(InvalidRequestError("", "External handle did not resolve to DID"))
    ELSE \* falls out of the else-if chain to "throw err"
      fail(Thrown("UnsupportedDomainError", "Not a supported handle domain"))

\* A request that fails outside the transaction.
Fail(r, e) ==
  /\ pc' = [pc EXCEPT ![r] = "failed"]
  /\ err' = [err EXCEPT ![r] = e]

\* lines 188-194: resolveExternalHandle is called for a handle of an unsupported
\* domain when the request carries a DID
resolvesExternally(in) ==
  HandleCheck(in.handle) = "UnsupportedDomainError" /\ in.did # NoDid

EnsureValidHandle(r) ==
  /\ pc[r] = "start"
  /\ \E resolved \in IF resolvesExternally(input[r]) THEN Dids \cup {NoDid} ELSE {NoDid} :
       LET res == ensureValidHandle(input[r], resolved) IN
       /\ resolvedHandleDid' = [resolvedHandleDid EXCEPT ![r] = resolved]
       /\ IF res.ok
            THEN /\ handle' = [handle EXCEPT ![r] = res.handle]
                 /\ pc' = [pc EXCEPT ![r] =
                             IF input[r].did # NoDid THEN "resolveDid" ELSE "formatOp"]
                 /\ err' = err
            ELSE /\ Fail(r, res.err)
                 /\ handle' = handle
  /\ UNCHANGED <<cfgVars, dbVars, plcOps, sendAttempts, did, plcCreateOp, didData, invite, txnState>>

\* ------------------------------------------------ caller-supplied DID branch
Includes(seq, x) == \E i \in 1..Len(seq) : seq[i] = x

\* canChange without the lookup of the node's key in data.rotationKeys.
canChangeAnyPlc(d, data) == IsPlc(d)

\* lines 22-28
canChange(d, data) ==
  IF ~IsPlc(d) THEN FALSE ELSE Includes(data.rotationKeys, PlcRotationKey)

\* The checks of lines 30-47 without the check of didData.pds (lines 48-53).
validateDidDocNoPds(d, data, h) ==
  IF data.signingKey # RepoSigningKey /\ ~canChange(d, data)
    THEN InvalidRequestError("InvalidDidDoc",
           "did document signingKey did not match service signingKey")
  ELSE IF data.handle # h /\ ~canChange(d, data)
    THEN InvalidRequestError("InvalidDidDoc",
           "did document handle did not match requested handle")
  ELSE NoErr

\* lines 29-53: the error thrown for the resolved document, or NoErr
validateDidDoc(d, data, h) ==
  IF data.signingKey # RepoSigningKey /\ ~canChange(d, data)
    THEN InvalidRequestError("InvalidDidDoc",
           "did document signingKey did not match service signingKey")
  ELSE IF data.handle # h /\ ~canChange(d, data)
    THEN InvalidRequestError("InvalidDidDoc",
           "did document handle did not match requested handle")
  ELSE IF data.pds # PublicUrl
    THEN InvalidRequestError("InvalidDidDoc",
           "did document AtprotoPersonalDataServer did not match service publicUrl")
  ELSE NoErr

\* line 21: resolveAtpData; the rotation keys are not known before
\* getDocumentData has answered
ResolveAtpData(r) ==
  /\ pc[r] = "resolveDid"
  /\ LET e == directory[input[r].did] IN
     IF ~e.resolves
       THEN /\ Fail(r, Thrown("Error", "resolveAtpData failed"))
            /\ didData' = didData
       ELSE /\ didData' = [didData EXCEPT ![r] = [e EXCEPT !.rotationKeys = <<>>]]
            /\ pc' = [pc EXCEPT ![r] =
                        IF IsPlc(e.did) THEN "getDocumentData" ELSE "validateDid"]
            /\ err' = err
  /\ UNCHANGED <<cfgVars, dbVars, plcOps, sendAttempts, handle, resolvedHandleDid, did, plcCreateOp, invite, txnState>>

\* lines 23-27: getDocumentData for the did:plc of the resolver's answer
GetDocumentData(r) ==
  /\ pc[r] = "getDocumentData"
  /\ LET data == directory[didData[r].did] IN
     IF ~data.plcResolves
       THEN /\ Fail(r, Thrown("Error", "getDocumentData failed"))
            /\ didData' = didData
       ELSE /\ didData' = [didData EXCEPT ![r].rotationKeys = data.rotationKeys]
            /\ pc' = [pc EXCEPT ![r] = "validateDid"]
            /\ err' = err
  /\ UNCHANGED <<cfgVars, dbVars, plcOps, sendAttempts, handle, resolvedHandleDid, did, plcCreateOp, invite, txnState>>

\* Lines 29-56 run inside the ctx.db.transaction callback: a document that
\* fails the checks aborts a transaction that was already opened.
ValidateDidInTxn(r) ==
  /\ pc[r] = "validateDid"
  /\ LET e == validateDidDoc(didData[r].did, didData[r], handle[r]) IN
     IF e # NoErr
       THEN /\ Fail(r, e)
            /\ did' = did
            /\ txnState' = [txnState EXCEPT ![r] = "aborted"]
       ELSE /\ did' = [did EXCEPT ![r] = didData[r].did]
            /\ pc' = [pc EXCEPT ![r] = "txn"]
            /\ err' = err
            /\ txnState' = txnState
  /\ UNCHANGED <<cfgVars, dbVars, plcOps, sendAttempts, handle, resolvedHandleDid, plcCreateOp, didData, invite>>

\* lines 29-56
ValidateDid(r) ==
  /\ pc[r] = "validateDid"
  /\ LET e == validateDidDoc(didData[r].did, didData[r], handle[r]) IN
     IF e # NoErr
       THEN /\ Fail(r, e)
            /\ did' = did
       ELSE /\ did' = [did EXCEPT ![r] = didData[r].did]
            /\ pc' = [pc EXCEPT ![r] = "txn"]
            /\ err' = err
  /\ UNCHANGED <<cfgVars, dbVars, plcOps, sendAttempts, handle, resolvedHandleDid, plcCreateOp, didData, invite, txnState>>

\* -------------------------------------------------------------- mint branch

\* Lines 58-61 with the caller's recovery key pushed to the end of the list
\* instead of unshifted to its front.
mintRotationKeysAppend(recoveryKey) ==
  IF recoveryKey # NoKey
    THEN <<CfgRecoveryKey, PlcRotationKey>> \o <<recoveryKey>>
    ELSE <<CfgRecoveryKey, PlcRotationKey>>

\* lines 58-61
mintRotationKeys(recoveryKey) ==
  IF recoveryKey # NoKey
    THEN <<recoveryKey>> \o <<CfgRecoveryKey, PlcRotationKey>>
    ELSE <<CfgRecoveryKey, PlcRotationKey>>

\* lines 63-69
createOp(recoveryKey, h) ==
  [type |-> "create", signingKey |-> RepoSigningKey,
   rotationKeys |-> mintRotationKeys(recoveryKey), handle |-> h,
   pds |-> PublicUrl, signer |-> PlcRotationKey]

\* plcCreate.did: the DID is derived from the content of the signed operation
didForCreateOp(op) ==
  [method |-> "plc",
   id |-> <<op.signingKey, op.pds, op.signer>> \o op.handle \o op.rotationKeys]


\* Lines 62-72 with the operation sent to the registry as soon as it is
\* formatted (createDid in place of createOp), before the transaction.
FormatCreateOpAndSend(r) ==
  /\ pc[r] = "formatOp"
  /\ LET op == createOp(input[r].recoveryKey, handle[r]) IN
     /\ plcCreateOp' = [plcCreateOp EXCEPT ![r] = op]
     /\ did' = [did EXCEPT ![r] = didForCreateOp(op)]
     /\ plcOps' = plcOps \cup {[did |-> didForCreateOp(op), op |-> op, by |-> r]}
  /\ sendAttempts' = [sendAttempts EXCEPT ![r] = @ + 1]
  /\ pc' = [pc EXCEPT ![r] = "txn"]
  /\ UNCHANGED <<cfgVars, dbVars, handle, resolvedHandleDid, didData, invite, err, txnState>>

FormatCreateOp(r) ==
  /\ pc[r] = "formatOp"
  /\ LET op == createOp(input[r].recoveryKey, handle[r]) IN
     /\ plcCreateOp' = [plcCreateOp EXCEPT ![r] = op]
     /\ did' = [did EXCEPT ![r] = didForCreateOp(op)]
  /\ pc' = [pc EXCEPT ![r] = "txn"]
  /\ UNCHANGED <<cfgVars, dbVars, plcOps, sendAttempts, handle, resolvedHandleDid, didData, invite, err, txnState>>


\* ------------------------------------------------------------ the transaction
\* Rows a statement of request r's transaction sees: the committed ones and its own.
Visible(rows, r) == {x \in rows : x.txn \in {Durable, r}}

\* The rows written on the database itself instead of the transaction.
TxnOfDb(r) == Durable

\* The transaction that rows written through actorTxn, repoTxn and dbTxn belong to
\* (lines 77-78: the services are built on dbTxn).
TxnOf(r) == r

Release(r) ==
  /\ lockHolder' = [c \in Codes |-> IF lockHolder[c] = r THEN 0 ELSE lockHolder[c]]
  /\ dbMutex' = IF dbMutex = r THEN 0 ELSE dbMutex

\* The callback throws: the transaction rolls back and the error reaches the caller.
Rollback(r, e) ==
  /\ accounts' = {x \in accounts : x.txn # r}
  /\ uses' = {x \in uses : x.txn # r}
  /\ repos' = {x \in repos : x.txn # r}
  /\ tokens' = {x \in tokens : x.txn # r}
  /\ Release(r)
  /\ txnState' = [txnState EXCEPT ![r] = "aborted"]
  /\ pc' = [pc EXCEPT ![r] = "failed"]
  /\ err' = [err EXCEPT ![r] = e]

\* lines 79-80
noInviteCode(in) == inviteRequired /\ in.inviteCode = NoCode

\* lines 76-85: ctx.db.transaction opens; the callback runs to its first await
BeginTxn(r) ==
  /\ pc[r] = "txn"
  /\ dialect = "sqlite" => dbMutex = 0
  /\ IF noInviteCode(input[r])
       THEN /\ txnState' = [txnState EXCEPT ![r] = "aborted"]
            /\ Fail(r, InvalidRequestError("InvalidInviteCode", "No invite code provided"))
            /\ dbMutex' = dbMutex
       ELSE /\ txnState' = [txnState EXCEPT ![r] = "open"]
            /\ dbMutex' = IF dialect = "sqlite" THEN r ELSE dbMutex
            /\ pc' = [pc EXCEPT ![r] = IF inviteRequired THEN "inviteSelect" ELSE "register"]
            /\ err' = err
  /\ UNCHANGED <<cfgVars, plcOps, sendAttempts, handle, resolvedHandleDid, did, plcCreateOp, didData, invite,
                 accounts, uses, repos, tokens, lockHolder>>

\* The select without its forUpdate().
forUpdateDropped == FALSE

\* line 92: the row lock is taken on the pg dialect only
forUpdate == dialect = "pg"


\* Lines 87-93 with forUpdate().skipLocked(): a row locked by another
\* transaction is left out of the result instead of being waited for.
InviteSelectSkipLocked(r) ==
  /\ pc[r] = "inviteSelect"
  /\ LET code == input[r].inviteCode
         found == code \in DOMAIN inviteTable
         skipped == found /\ forUpdate /\ lockHolder[code] \notin {0, r}
     IN
     /\ IF found /\ forUpdate /\ ~skipped
          THEN lockHolder' = [lockHolder EXCEPT ![code] = r]
          ELSE lockHolder' = lockHolder
     /\ invite' = [invite EXCEPT ![r] =
                     IF found /\ ~skipped
                       THEN [found |-> TRUE,
                             availableUses |-> inviteTable[code].availableUses,
                             disabled |-> inviteTable[code].disabled]
                       ELSE NoInvite]
  /\ pc' = [pc EXCEPT ![r] = "inviteCount"]
  /\ UNCHANGED <<cfgVars, plcOps, sendAttempts, handle, resolvedHandleDid, did, plcCreateOp, didData, err, txnState,
                 accounts, uses, repos, tokens, dbMutex>>

\* lines 87-93: select the invite_code row, locking it
InviteSelect(r) ==
  /\ pc[r] = "inviteSelect"
  /\ LET code == input[r].inviteCode
         found == code \in DOMAIN inviteTable
     IN
     /\ IF found /\ forUpdate
          THEN /\ lockHolder[code] \in {0, r}
               /\ lockHolder' = [lockHolder EXCEPT ![code] = r]
          ELSE lockHolder' = lockHolder
     /\ invite' = [invite EXCEPT ![r] =
                     IF found
                       THEN [found |-> TRUE,
                             availableUses |-> inviteTable[code].availableUses,
                             disabled |-> inviteTable[code].disabled]
                       ELSE NoInvite]
  /\ pc' = [pc EXCEPT ![r] = "inviteCount"]
  /\ UNCHANGED <<cfgVars, plcOps, sendAttempts, handle, resolvedHandleDid, did, plcCreateOp, didData, err, txnState,
                 accounts, uses, repos, tokens, dbMutex>>

\* The comparison of line 101 with < for <=.
inviteUnavailableOffByOne(inv, useCount) ==
  ~inv.found \/ inv.disabled \/ inv.availableUses < useCount

\* line 101
inviteUnavailable(inv, useCount) ==
  ~inv.found \/ inv.disabled \/ inv.availableUses <= useCount

\* lines 95-107: count the uses of the code, reject an unavailable code

\* Lines 95-107 with an unavailable code polled again instead of rejected: the
\* handler goes back to the select of lines 87-93 until a use is free.
InviteCountRetry(r) ==
  /\ pc[r] = "inviteCount"
  /\ LET useCount ==
           Cardinality({u \in Visible(uses, r) : u.code = input[r].inviteCode})
     IN
     /\ pc' = [pc EXCEPT ![r] =
                 IF inviteUnavailable(invite[r], useCount)
                   THEN "inviteSelect" ELSE "register"]
     /\ UNCHANGED <<err, txnState, accounts, uses, repos, tokens,
                    lockHolder, dbMutex>>
  /\ UNCHANGED <<cfgVars, plcOps, sendAttempts, handle, resolvedHandleDid, did, plcCreateOp, didData, invite>>

InviteCount(r) ==
  /\ pc[r] = "inviteCount"
  /\ LET useCount ==
           Cardinality({u \in Visible(uses, r) : u.code = input[r].inviteCode})
     IN
     IF inviteUnavailable(invite[r], useCount)
       THEN Rollback(r, InvalidRequestError("InvalidInviteCode",
                                            "Provided invite code not available"))
       ELSE /\ pc' = [pc EXCEPT ![r] = "register"]
            /\ UNCHANGED <<err, txnState, accounts, uses, repos, tokens,
                           lockHolder, dbMutex>>
  /\ UNCHANGED <<cfgVars, plcOps, sendAttempts, handle, resolvedHandleDid, did, plcCreateOp, didData, invite>>


\* Line 138 with the insert of the invite_code_use row skipped.
AfterSendNoUse(r) == "createRepo"

\* the step after sendOperation (line 138)
AfterSend(r) ==
  IF inviteRequired /\ input[r].inviteCode # NoCode THEN "insertUse" ELSE "createRepo"


\* Line 126 without the test of plcCreateOp: the submission is attempted for
\* every request.
AfterRegisterAlwaysSend(r) == "sendOp"

\* the step after registerUser (line 126)
AfterRegister(r) == IF plcCreateOp[r] # NoOp THEN "sendOp" ELSE AfterSend(r)

Collides(a, r) ==
  a.did = did[r] \/ a.handle = handle[r] \/ a.email = input[r].email

\* The two messages of lines 116-120 exchanged.
alreadyExistsErrorSwapped(got, h, e) == IF got THEN EmailTaken(e) ELSE HandleTaken(h)

\* lines 114-120: which column the error names
alreadyExistsError(got, h, e) == IF got THEN HandleTaken(h) ELSE EmailTaken(e)

\* lines 110-113 and 122: registerUser; a UserAlreadyExistsError is caught and
\* the handler goes on to getAccount, any other error is rethrown
RegisterUser(r) ==
  /\ pc[r] = "register"
  \* an insert waits for a transaction in flight that holds a colliding row
  /\ ~ \E a \in accounts : a.txn \notin {Durable, r} /\ Collides(a, r)
  /\ \E fault \in BOOLEAN :
       IF fault
         THEN Rollback(r, Thrown("Error", "registerUser failed"))
       ELSE IF \E a \in Visible(accounts, r) : Collides(a, r)
         THEN /\ pc' = [pc EXCEPT ![r] = "getAccount"]
              /\ UNCHANGED <<err, txnState, dbVars>>
       ELSE /\ accounts' = accounts \cup
                 {[did |-> did[r], handle |-> handle[r], email |-> input[r].email,
                   txn |-> TxnOf(r), by |-> r]}
            /\ pc' = [pc EXCEPT ![r] = AfterRegister(r)]
            /\ UNCHANGED <<err, txnState, uses, repos, tokens, lockHolder, dbMutex>>
  /\ UNCHANGED <<cfgVars, plcOps, sendAttempts, handle, resolvedHandleDid, did, plcCreateOp, didData, invite>>

\* lines 114-121: getAccount(handle) on the rows visible when it runs, then the
\* throw that names the handle or the email
GetAccount(r) ==
  /\ pc[r] = "getAccount"
  /\ \E fault \in BOOLEAN :
       IF fault
         THEN Rollback(r, Thrown("Error", "getAccount failed"))
         ELSE LET got == \E a \in Visible(accounts, r) : a.handle = handle[r] IN
              Rollback(r, alreadyExistsError(got, handle[r], input[r].email))
  /\ UNCHANGED <<cfgVars, plcOps, sendAttempts, handle, resolvedHandleDid, did, plcCreateOp, didData, invite>>

\* Lines 125-136 with the catch block submitting the operation again after a
\* first failure instead of rethrowing.
SendOperationRetry(r) ==
  /\ pc[r] = "sendOp"
  /\ sendAttempts' = [sendAttempts EXCEPT ![r] = @ + 1]
  /\ \E ok \in BOOLEAN :
       IF ok
         THEN /\ plcOps' = plcOps \cup {[did |-> did[r], op |-> plcCreateOp[r], by |-> r]}
              /\ pc' = [pc EXCEPT ![r] = AfterSend(r)]
              /\ UNCHANGED <<err, txnState, dbVars>>
         ELSE IF sendAttempts[r] = 0
           THEN UNCHANGED <<pc, err, txnState, dbVars, plcOps>>
           ELSE /\ Rollback(r, Thrown("Error", "sendOperation failed"))
                /\ plcOps' = plcOps
  /\ UNCHANGED <<cfgVars, handle, resolvedHandleDid, did, plcCreateOp, didData, invite>>

\* Lines 125-136 with the catch block logging the failure and not rethrowing.
SendOperationSwallow(r) ==
  /\ pc[r] = "sendOp"
  /\ sendAttempts' = [sendAttempts EXCEPT ![r] = @ + 1]
  /\ \E ok \in BOOLEAN :
       /\ plcOps' = IF ok
                      THEN plcOps \cup {[did |-> did[r], op |-> plcCreateOp[r], by |-> r]}
                      ELSE plcOps
       /\ pc' = [pc EXCEPT ![r] = AfterSend(r)]
       /\ UNCHANGED <<err, txnState, dbVars>>
  /\ UNCHANGED <<cfgVars, handle, resolvedHandleDid, did, plcCreateOp, didData, invite>>

\* lines 125-136
SendOperation(r) ==
  /\ pc[r] = "sendOp"
  /\ sendAttempts' = [sendAttempts EXCEPT ![r] = @ + 1]
  /\ \E ok \in BOOLEAN :
       IF ok
         THEN /\ plcOps' = plcOps \cup {[did |-> did[r], op |-> plcCreateOp[r], by |-> r]}
              /\ pc' = [pc EXCEPT ![r] = AfterSend(r)]
              /\ UNCHANGED <<err, txnState, dbVars>>
         ELSE /\ Rollback(r, Thrown("Error", "sendOperation failed"))
              /\ plcOps' = plcOps
  /\ UNCHANGED <<cfgVars, handle, resolvedHandleDid, did, plcCreateOp, didData, invite>>

\* lines 138-147
InsertInviteUse(r) ==
  /\ pc[r] = "insertUse"
  /\ \E fault \in BOOLEAN :
       IF fault
         THEN Rollback(r, Thrown("Error", "insert invite_code_use failed"))
         ELSE /\ uses' = uses \cup
                   {[code |-> input[r].inviteCode, usedBy |-> did[r],
                     txn |-> TxnOf(r), by |-> r]}
              /\ pc' = [pc EXCEPT ![r] = "createRepo"]
              /\ UNCHANGED <<err, txnState, accounts, repos, tokens, lockHolder, dbMutex>>
  /\ UNCHANGED <<cfgVars, plcOps, sendAttempts, handle, resolvedHandleDid, did, plcCreateOp, didData, invite>>

\* lines 149-150
CreateRepo(r) ==
  /\ pc[r] = "createRepo"
  /\ \E fault \in BOOLEAN :
       IF fault
         THEN Rollback(r, Thrown("Error", "createRepo failed"))
         ELSE /\ repos' = repos \cup {[did |-> did[r], txn |-> TxnOf(r), by |-> r]}
              /\ pc' = [pc EXCEPT ![r] = "grantToken"]
              /\ UNCHANGED <<err, txnState, accounts, uses, tokens, lockHolder, dbMutex>>
  /\ UNCHANGED <<cfgVars, plcOps, sendAttempts, handle, resolvedHandleDid, did, plcCreateOp, didData, invite>>

\* lines 152-154
GrantRefreshToken(r) ==
  /\ pc[r] = "grantToken"
  /\ \E fault \in BOOLEAN :
       IF fault
         THEN Rollback(r, Thrown("Error", "grantRefreshToken failed"))
         ELSE /\ tokens' = tokens \cup {[did |-> did[r], txn |-> TxnOf(r), by |-> r]}
              /\ pc' = [pc EXCEPT ![r] = "commit"]
              /\ UNCHANGED <<err, txnState, accounts, uses, repos, lockHolder, dbMutex>>
  /\ UNCHANGED <<cfgVars, plcOps, sendAttempts, handle, resolvedHandleDid, did, plcCreateOp, didData, invite>>

CommitRows(rows, r) ==
  {IF x.txn = r THEN [x EXCEPT !.txn = Durable] ELSE x : x \in rows}

\* lines 156-170: the callback returns, the transaction commits, the handler answers
Commit(r) ==
  /\ pc[r] = "commit"
  /\ accounts' = CommitRows(accounts, r)
  /\ uses' = CommitRows(uses, r)
  /\ repos' = CommitRows(repos, r)
  /\ tokens' = CommitRows(tokens, r)
  /\ Release(r)
  /\ txnState' = [txnState EXCEPT ![r] = "committed"]
  /\ pc' = [pc EXCEPT ![r] = "done"]
  /\ UNCHANGED <<cfgVars, plcOps, sendAttempts, handle, resolvedHandleDid, did, plcCreateOp, didData, invite, err>>

Next ==
  \/ \E r \in Reqs : EnsureValidHandle(r)
  \/ \E r \in Reqs : ResolveAtpData(r)
  \/ \E r \in Reqs : GetDocumentData(r)
  \/ \E r \in Reqs : ValidateDid(r)
  \/ \E r \in Reqs : FormatCreateOp(r)
  \/ \E r \in Reqs : BeginTxn(r)
  \/ \E r \in Reqs : InviteSelect(r)
  \/ \E r \in Reqs : InviteCount(r)
  \/ \E r \in Reqs : RegisterUser(r)
  \/ \E r \in Reqs : GetAccount(r)
  \/ \E r \in Reqs : SendOperation(r)
  \/ \E r \in Reqs : InsertInviteUse(r)
  \/ \E r \in Reqs : CreateRepo(r)
  \/ \E r \in Reqs : GrantRefreshToken(r)
  \/ \E r \in Reqs : Commit(r)

Spec == Init /\ [][Next]_vars


\* The workload of the termination check: registrations that take the same
\* handle, with the same or another email, and one that brings its own DID.
FairInputs == {in \in ConcInputs : in.handle = AliceTest}

InitFair ==
  /\ Init
  /\ \A r \in Reqs : input[r] \in FairInputs

\* Every awaited call of the handler returns or throws, and the store grants a
\* lock, the connection or a unique-index wait when it can: as long as some
\* request has a statement that can run, a statement is run.
SpecFair == InitFair /\ [][Next]_vars /\ WF_vars(Next)

SpecOne == InitOne /\ [][Next]_vars

PcValues == {"idle", "start", "resolveDid", "getDocumentData", "validateDid", "formatOp", "txn",
             "inviteSelect", "inviteCount", "register", "getAccount", "sendOp", "insertUse",
             "createRepo", "grantToken", "commit", "done", "failed"}

TypeOK ==
  /\ inviteRequired \in BOOLEAN
  /\ dialect \in {"pg", "sqlite"}
  /\ pc \in [Reqs -> PcValues]
  /\ txnState \in [Reqs -> {"none", "open", "committed", "aborted"}]
  /\ lockHolder \in [Codes -> Reqs \cup {0}]
  /\ dbMutex \in Reqs \cup {0}
  /\ \A a \in accounts : a.txn \in Reqs \cup {Durable} /\ a.by \in Reqs \cup {0}
  /\ \A u \in uses : u.txn \in Reqs \cup {Durable} /\ u.by \in Reqs
  /\ sendAttempts \in [Reqs -> Nat]


\* =================================================================== claims
Final(r) == pc[r] \in {"done", "failed"}

NoRowsBy(r) ==
  /\ ~ \E x \in accounts : x.by = r
  /\ ~ \E x \in uses : x.by = r
  /\ ~ \E x \in repos : x.by = r
  /\ ~ \E x \in tokens : x.by = r

InvalidInviteCode(r) == pc[r] = "failed" /\ err[r].name = "InvalidInviteCode"

\* C1: a request that failed at or after the start of its transaction has left no
\* account row, no invite_code_use row, no repository root and no refresh-token
\* record of its own in the store.
C1_Atomicity ==
  \A r \in Reqs :
    (pc[r] = "failed" /\ txnState[r] = "aborted") => NoRowsBy(r)

\* C1 witness: a request failed at grantRefreshToken, after it had written its
\* account, invite use and repository root, and nothing of it is left.
C1_Witness ==
  \E r \in Reqs :
    /\ pc[r] = "failed"
    /\ txnState[r] = "aborted"
    /\ err[r].msg = "grantRefreshToken failed"
    /\ inviteRequired
    /\ NoRowsBy(r)

Min(a, b) == IF a <= b THEN a ELSE b

UsersOf(c) == {r \in Reqs : input[r].inviteCode = c}

CommittedUses(c) == {u \in uses : u.code = c /\ u.txn = Durable}

\* C2: with invites required and an enabled code of N uses, the committed uses of
\* the code never exceed N; and once every request using the code has ended, none
\* of them for another reason than InvalidInviteCode, exactly min(N, requests) have
\* committed and each has its use row.
C2_InviteExhaustion ==
  inviteRequired =>
    \A c \in Codes :
      ~inviteTable[c].disabled =>
        LET N == inviteTable[c].availableUses
            done == {r \in UsersOf(c) : pc[r] = "done"}
        IN
        /\ Cardinality(CommittedUses(c)) <= N
        /\ ( (\A r \in UsersOf(c) : pc[r] = "done" \/ InvalidInviteCode(r))
             => /\ Cardinality(done) = Min(N, Cardinality(UsersOf(c)))
                /\ Cardinality(CommittedUses(c)) = Cardinality(done) )

\* C2 witness: more requests than uses, on the locking dialect: N committed and
\* another was refused for the exhausted code.
C2_Witness ==
  /\ inviteRequired
  /\ dialect = "pg"
  /\ \E c \in Codes :
       /\ Cardinality(UsersOf(c)) > inviteTable[c].availableUses
       /\ \A r \in UsersOf(c) : pc[r] = "done" \/ InvalidInviteCode(r)
       /\ Cardinality(CommittedUses(c)) = inviteTable[c].availableUses
       /\ \E r \in UsersOf(c) :
            /\ InvalidInviteCode(r)
            /\ err[r].msg = "Provided invite code not available"

RegisterStep(r) == pc[r] = "register" /\ pc'[r] # "register"

GetAccountStep(r) == pc[r] = "getAccount" /\ pc'[r] # "getAccount"

\* C3: when registerUser runs against a committed account with the same handle
\* or the same email, the request adds no account row and either fails on a
\* fault of the store or goes on to look the handle up; when that lookup runs
\* with an account of the same handle and another email in sight, the request
\* fails and the error, unless it is a fault of the store, is "Handle already
\* taken" with the handle; with an account of the same email and no account of
\* the handle in sight, it is "Email already taken" with the email; in both
\* cases the request has added no account row.
C3_AlreadyExists ==
  [][\A r \in Reqs :
       LET seen == Visible(accounts, r)
           sameHandle == \E a \in seen :
                           a.handle = handle[r] /\ a.email # input[r].email
           sameEmail == /\ \E a \in seen :
                             a.email = input[r].email /\ a.handle # handle[r]
                        /\ ~ \E a \in seen : a.handle = handle[r]
       IN
       /\ (RegisterStep(r) /\ (sameHandle \/ sameEmail)) =>
            /\ pc'[r] = "getAccount" \/ (pc'[r] = "failed" /\ err'[r].class = "Error")
            /\ ~ \E a \in accounts' : a.by = r
       /\ GetAccountStep(r) =>
            /\ ~ \E a \in accounts : a.by = r
            /\ sameHandle =>
                 /\ pc'[r] = "failed"
                 /\ err'[r].class = "Error" \/ err'[r] = HandleTaken(handle[r])
                 /\ ~ \E a \in accounts' : a.by = r
            /\ sameEmail =>
                 /\ pc'[r] = "failed"
                 /\ err'[r].class = "Error" \/ err'[r] = EmailTaken(input[r].email)
                 /\ ~ \E a \in accounts' : a.by = r
    ]_vars

\* C3 witness: an account is committed and a request with its handle and another
\* email has failed with the error that names the handle.
C3_Witness ==
  \E r \in Reqs : \E a \in accounts :
    /\ a.txn = Durable
    /\ a.by # r
    /\ a.handle = handle[r]
    /\ a.email # input[r].email
    /\ pc[r] = "failed"
    /\ err[r] = HandleTaken(handle[r])

\* C4: invites required, a code of exactly one use: a request that ends when an
\* identical request (same email, handle and invite code) has already committed
\* ends in InvalidInviteCode, not in an already-exists error.
C4_SecondIdenticalCall ==
  [][\A r, s \in Reqs :
       ( /\ inviteRequired
         /\ r # s
         /\ input[r] = input[s]
         /\ input[r].inviteCode \in Codes
         /\ inviteTable[input[r].inviteCode].availableUses = 1
         /\ ~inviteTable[input[r].inviteCode].disabled
         /\ pc[s] = "done"
         /\ ~Final(r)
         /\ pc'[r] \in {"done", "failed"} )
       => (pc'[r] = "failed" /\ err'[r].name = "InvalidInviteCode")
    ]_vars

\* C4 witness: the first call committed, the identical second one was refused.
C4_Witness ==
  /\ inviteRequired
  /\ \E r, s \in Reqs :
       /\ r # s
       /\ input[r] = input[s]
       /\ inviteTable[input[r].inviteCode].availableUses = 1
       /\ pc[s] = "done"
       /\ \E a \in accounts : a.by = s /\ a.txn = Durable /\ a.handle = handle[r]
       /\ InvalidInviteCode(r)


\* --------------------------------------------------- the caller-supplied DID
\* The request brought a DID, its document was resolved (with the plc data of a
\* did:plc) and lines 29-53 have run.
Validated(r) ==
  /\ input[r].did # NoDid
  /\ didData[r].resolves
  /\ pc[r] \notin {"getDocumentData", "validateDid"}
  /\ ~ (pc[r] = "failed" /\ err[r].msg = "getDocumentData failed")

\* The request has gone on to the registration transaction.
ReachedTxn(r) == pc[r] = "txn" \/ txnState[r] # "none"

InvalidDidDoc(r) == pc[r] = "failed" /\ err[r].name = "InvalidDidDoc"

HasNodeKey(r) == Includes(didData[r].rotationKeys, PlcRotationKey)

\* C5: a request with a DID whose resolved document names another service
\* endpoint than the node's public URL is refused with InvalidDidDoc and creates
\* no account, whatever the document's handle, signing key and rotation keys.
C5_AdoptPathRejection ==
  \A r \in Reqs :
    (Validated(r) /\ didData[r].pds # PublicUrl)
    => /\ InvalidDidDoc(r)
       /\ ~ReachedTxn(r)
       /\ NoRowsBy(r)

\* C5 witness: handle and signing key match, the node's rotation key is present,
\* only the endpoint differs, and the request was refused.
C5_Witness ==
  \E r \in Reqs :
    /\ Validated(r)
    /\ didData[r].pds # PublicUrl
    /\ didData[r].handle = handle[r]
    /\ didData[r].signingKey = RepoSigningKey
    /\ IsPlc(input[r].did) /\ HasNodeKey(r)
    /\ InvalidDidDoc(r)

\* C6: a request with a DID reaches the transaction only if the document's
\* handle is the validated handle and its signing key the node's; a document
\* that differs in either is refused with InvalidDidDoc, whether or not the
\* node's rotation key is among its rotation keys.
C6_MismatchRejected ==
  \A r \in Reqs :
    Validated(r) =>
      /\ ReachedTxn(r) =>
           /\ didData[r].handle = handle[r]
           /\ didData[r].signingKey = RepoSigningKey
      /\ (didData[r].handle # handle[r] \/ didData[r].signingKey # RepoSigningKey)
           => InvalidDidDoc(r)

\* C7: a did:plc whose document lacks the node's rotation key is refused with
\* InvalidDidDoc, also when handle, signing key and endpoint match.
C7_MissingKeyRejected ==
  \A r \in Reqs :
    (Validated(r) /\ IsPlc(input[r].did) /\ ~HasNodeKey(r)) => InvalidDidDoc(r)

\* C8: a request with a DID whose document lacks the node's rotation key, or
\* whose method is not did:plc, and whose signing key or handle differs, is
\* refused with InvalidDidDoc and creates no account.
C8_RotationAuthorization ==
  \A r \in Reqs :
    ( /\ Validated(r)
      /\ ~IsPlc(input[r].did) \/ ~HasNodeKey(r)
      /\ didData[r].signingKey # RepoSigningKey \/ didData[r].handle # handle[r] )
    => /\ InvalidDidDoc(r)
       /\ ~ReachedTxn(r)
       /\ NoRowsBy(r)

\* C8 witness: a did:plc without the node's key whose signing key differs, the
\* endpoint being right, was refused.
C8_Witness ==
  \E r \in Reqs :
    /\ Validated(r)
    /\ IsPlc(input[r].did) /\ ~HasNodeKey(r)
    /\ didData[r].signingKey # RepoSigningKey
    /\ didData[r].handle = handle[r]
    /\ didData[r].pds = PublicUrl
    /\ InvalidDidDoc(r)


\* ------------------------------------------------------- handle validation
HandleValidated(r) == pc[r] \notin {"idle", "start"}

\* C9: for a well-formed handle of a domain the node does not serve, handle
\* validation fails with UnsupportedDomain when the request has no DID, fails
\* with the handle-mismatch error when the handle resolves externally to
\* something else than the request's DID, and otherwise succeeds with the
\* normalized handle.
C9_ExternalHandle ==
  \A r \in Reqs :
    (HandleValidated(r) /\ HandleCheck(input[r].handle) = "UnsupportedDomainError")
    => IF input[r].did = NoDid
         THEN pc[r] = "failed" /\ err[r].name = "UnsupportedDomain"
       ELSE IF resolvedHandleDid[r] # input[r].did
         THEN /\ pc[r] = "failed"
              /\ err[r].msg = "External handle did not resolve to DID"
       ELSE /\ handle[r] = normalizeHandle(input[r].handle)
            /\ err[r].class # "UnsupportedDomainError"

\* C10: with invites required, a request without an invite code ends in
\* InvalidInviteCode before its handle is validated, before a DID is resolved or
\* a creation operation formatted, and before a transaction is opened.
C10_NoInviteCodeFirst ==
  \A r \in Reqs :
    (inviteRequired /\ input[r].inviteCode = NoCode /\ Final(r))
    => /\ InvalidInviteCode(r)
       /\ handle[r] = NoHandle
       /\ did[r] = NoDid
       /\ txnState[r] = "none"

\* ------------------------------------------------------------------ C11
SendFailed(r) == pc[r] = "failed" /\ err[r].msg = "sendOperation failed"

OpsBy(r) == {o \in plcOps : o.by = r}

\* C11: a request calls sendOperation at most once; a request whose submission
\* failed made exactly that one call, ended with the submission's error and an
\* aborted transaction, and has left no account row, no invite_code_use row, no
\* repository root, no refresh token and no accepted operation.
C11_SendOnceNoRetry ==
  \A r \in Reqs :
    /\ sendAttempts[r] <= 1
    /\ SendFailed(r) =>
         /\ sendAttempts[r] = 1
         /\ err[r].class = "Error"
         /\ txnState[r] = "aborted"
         /\ NoRowsBy(r)
         /\ OpsBy(r) = {}

\* C11 witness: a request whose one submission failed, while another request's
\* registration is committed.
C11_Witness ==
  \E r, s \in Reqs :
    /\ SendFailed(r) /\ sendAttempts[r] = 1
    /\ pc[s] = "done" /\ \E a \in accounts : a.by = s /\ a.txn = Durable

\* ------------------------------------------------------------------ C12
Minting(r) == input[r] # NoInput /\ input[r].did = NoDid

Formatted(r) == Minting(r) /\ (pc[r] = "txn" \/ txnState[r] # "none")

\* C12: a request without a DID that got past the mint branch carries a creation
\* operation whose rotation keys are the caller's recovery key, the configured
\* recovery key and the node's rotation key in that order when a recovery key
\* was supplied, and the last two alone when none was; its signing key is the
\* node's repository signing key, its handle the validated handle and its
\* service endpoint the node's public URL. The same holds of every operation
\* the registry accepted.
C12_MintOperation ==
  \A r \in Reqs :
    /\ Formatted(r) =>
         /\ plcCreateOp[r].type = "create"
         /\ plcCreateOp[r].rotationKeys =
              (IF input[r].recoveryKey = UserRecoveryKey
                 THEN <<UserRecoveryKey, CfgRecoveryKey, PlcRotationKey>>
                 ELSE <<CfgRecoveryKey, PlcRotationKey>>)
         /\ plcCreateOp[r].signingKey = RepoSigningKey
         /\ plcCreateOp[r].handle = handle[r]
         /\ plcCreateOp[r].handle = normalizeHandle(input[r].handle)
         /\ plcCreateOp[r].pds = PublicUrl
    /\ \A o \in OpsBy(r) : o.op = plcCreateOp[r] /\ Formatted(r)

\* C12 witness: the registry accepted the operation of a request that supplied
\* a recovery key, and the request committed.
C12_Witness ==
  \E r \in Reqs :
    /\ pc[r] = "done"
    /\ input[r].recoveryKey = UserRecoveryKey
    /\ \E o \in OpsBy(r) : Len(o.op.rotationKeys) = 3

\* ------------------------------------------------------------------ C13
Adopting(r) == input[r] # NoInput /\ input[r].did # NoDid

\* C13: a request that supplies a DID never holds a pending creation operation,
\* never calls sendOperation and has no operation accepted by the registry,
\* whether it is running, has failed or has succeeded; when it succeeds the DID
\* of the account it registered is the DID the caller supplied.
C13_AdoptSubmitsNothing ==
  \A r \in Reqs :
    Adopting(r) =>
      /\ plcCreateOp[r] = NoOp
      /\ sendAttempts[r] = 0
      /\ OpsBy(r) = {}
      /\ pc[r] = "done" =>
           /\ did[r] = input[r].did
           /\ \A a \in accounts : a.by = r => a.did = input[r].did

\* C13 witness: a request that supplied a DID has committed its account.
C13_Witness ==
  \E r \in Reqs :
    /\ Adopting(r) /\ pc[r] = "done"
    /\ \E a \in accounts : a.by = r /\ a.txn = Durable /\ a.did = input[r].did

\* ------------------------------------------------------------------ C14
\* Request r is about to run the locked select of lines 87-93 while another
\* transaction holds the lock on the row of its invite code.
Contended(r) ==
  /\ pc[r] = "inviteSelect"
  /\ input[r].inviteCode \in DOMAIN inviteTable
  /\ lockHolder[input[r].inviteCode] \notin {0, r}

NotAvailable(r) ==
  pc[r] = "failed" /\ err[r].msg = "Provided invite code not available"

\* C14 as stated: the locked select of a request does not wait for the
\* transaction that holds the lock on the row; it can run at once.
C14_Original ==
  \A r \in Reqs : Contended(r) => ENABLED InviteSelect(r)

\* C14, amended: the locked select of a request waits while another transaction
\* holds the lock on the row of its invite code, and a request fails with
\* 'Provided invite code not available' only if the code is absent, disabled or
\* has at least availableUses committed uses, never because the row was locked.
C14_WaitsForLock ==
  \A r \in Reqs :
    /\ Contended(r) => ~ ENABLED InviteSelect(r)
    /\ NotAvailable(r) =>
         LET code == input[r].inviteCode IN
         \/ code \notin DOMAIN inviteTable
         \/ inviteTable[code].disabled
         \/ Cardinality(CommittedUses(code)) >= inviteTable[code].availableUses

\* C14 witness: a request stands at its locked select while the transaction
\* of another request holds the lock on the same row and has written its use.
C14_Witness ==
  \E r, s \in Reqs :
    /\ Contended(r)
    /\ lockHolder[input[r].inviteCode] = s
    /\ \E u \in uses : u.by = s /\ u.txn = TxnOf(s) /\ u.code = input[r].inviteCode

\* ------------------------------------------------------------------ C15
\* The invite code of request r is absent, disabled or exhausted in the store
\* the request starts from (no use is recorded before the request runs).
UnavailableAtStart(r) ==
  LET code == input[r].inviteCode IN
  \/ code \notin DOMAIN inviteTable
  \/ inviteTable[code].disabled
  \/ inviteTable[code].availableUses <= Cardinality(CommittedUses(code))

\* C15: with invites required, a request whose handle is valid and whose invite
\* code is absent, disabled or exhausted when the handle has been validated
\* fails with InvalidInviteCode without resolving a DID document, without
\* formatting a creation operation and without opening the transaction.
C15_InvitePreCheck ==
  \A r \in Reqs :
    (/\ inviteRequired
     /\ input[r] # NoInput
     /\ handle[r] # NoHandle
     /\ UnavailableAtStart(r)
     /\ Final(r))
    => /\ InvalidInviteCode(r)
       /\ didData[r] = DefaultEntry
       /\ plcCreateOp[r] = NoOp
       /\ txnState[r] = "none"

\* ------------------------------------------------------------------ C16
AlreadyTaken(r) ==
  pc[r] = "failed" /\ err[r].msg \in {"Handle already taken", "Email already taken"}

\* The invite check of lines 87-107 passes for r on the rows it sees now.
InviteCheckPasses(r) ==
  ~ inviteUnavailable(invite[r],
      Cardinality({u \in Visible(uses, r) : u.code = input[r].inviteCode}))

\* The state a call of sendOperation by r starts from.
SubmitsFrom(r) ==
  /\ \E a \in accounts :
       /\ a.by = r /\ a.txn = TxnOf(r)
       /\ a.did = did[r] /\ a.handle = handle[r] /\ a.email = input[r].email
  /\ inviteRequired => InviteCheckPasses(r)
  /\ txnState[r] = "open"

\* C16: a request calls sendOperation only from a state in which its account
\* row is registered in its open transaction and, when invites are required,
\* its invite check has passed; a request that failed the invite check or
\* collided on handle or email has made no call and has no accepted operation.
C16_SubmitAfterRegister ==
  /\ [](\A r \in Reqs :
          (InvalidInviteCode(r) \/ AlreadyTaken(r)) =>
            sendAttempts[r] = 0 /\ OpsBy(r) = {})
  /\ [][\A r \in Reqs :
          (sendAttempts'[r] # sendAttempts[r] \/ OpsBy(r)' # OpsBy(r)) =>
            SubmitsFrom(r)]_vars

\* C16 witness: one request's operation was accepted after its account row was
\* registered, and another failed the invite check without a submission.
C16_Witness ==
  \E r, s \in Reqs :
    /\ OpsBy(r) # {} /\ \E a \in accounts : a.by = r /\ a.did = did[r]
    /\ inviteRequired /\ InvalidInviteCode(s) /\ sendAttempts[s] = 0

\* ------------------------------------------------------------------ C17
\* The request ended with an error of ensureValidHandle (lines 174-201) or of
\* the checks of the caller's DID (lines 21-53).
ValidationFailed(r) ==
  /\ pc[r] = "failed"
  /\ \/ err[r].name \in {"InvalidHandle", "HandleNotAvailable", "UnsupportedDomain",
                         "InvalidDidDoc"}
     \/ err[r].class = "UnsupportedDomainError"
     \/ err[r].msg \in {"External handle did not resolve to DID",
                        "resolveAtpData failed", "getDocumentData failed"}

\* C17: a request that failed while its handle or its DID was validated has
\* never opened the transaction, holds no lock, has no row in any table and no
\* submission to the registry; and the step in which it fails changes neither
\* the tables nor the registry.
C17_ValidationFailureFrame ==
  /\ [](\A r \in Reqs :
          ValidationFailed(r) =>
            /\ txnState[r] = "none"
            /\ NoRowsBy(r)
            /\ OpsBy(r) = {} /\ sendAttempts[r] = 0
            /\ dbMutex # r /\ \A c \in Codes : lockHolder[c] # r)
  /\ [][\A r \in Reqs :
          (ValidationFailed(r)' /\ ~ ValidationFailed(r)) =>
            UNCHANGED <<dbVars, plcOps, sendAttempts, inviteTable, txnState>>]_vars

\* C17 witness: a request with a known invite code failed on its DID document.
C17_Witness ==
  \E r \in Reqs :
    /\ ValidationFailed(r)
    /\ err[r].name = "InvalidDidDoc"
    /\ input[r].inviteCode \in Codes

\* ------------------------------------------------------------------ C18
CommittedAccounts == {a \in accounts : a.txn = Durable}

\* C18: every committed account of a request without a DID has a DID whose
\* creation operation, the one the request formatted, was accepted by the
\* registry for that request; this holds from the moment of the commit on.
C18_CommittedMintHasOp ==
  \A a \in CommittedAccounts :
    Minting(a.by) =>
      \E o \in plcOps :
        /\ o.did = a.did /\ o.by = a.by
        /\ o.op = plcCreateOp[a.by]
        /\ a.did = didForCreateOp(o.op)

\* C18 witness: a committed minted account with its accepted operation, beside
\* an accepted operation of a failed request that has no account (the converse
\* does not hold).
C18_Witness ==
  \E r, s \in Reqs :
    /\ pc[r] = "done" /\ Minting(r)
    /\ \E a \in CommittedAccounts : a.by = r /\ \E o \in OpsBy(r) : o.did = a.did
    /\ pc[s] = "failed" /\ OpsBy(s) # {}
    /\ ~ \E a \in accounts : a.by = s

\* ------------------------------------------------------------------ C19
CommittedRows(rows) == {x \in rows : x.txn = Durable}

\* C19: with invites required, every committed account has exactly one
\* committed invite_code_use row with usedBy its DID, and that row names the
\* code its request supplied; every committed use row belongs to a committed
\* account with that DID; and, invites required or not, every committed account
\* has exactly one committed repository root and one granted refresh token.
C19_UseRowsMatchAccounts ==
  /\ inviteRequired =>
       /\ \A a \in CommittedAccounts :
            LET us == {u \in CommittedRows(uses) : u.usedBy = a.did} IN
            /\ Cardinality(us) = 1
            /\ \A u \in us : u.code = input[a.by].inviteCode /\ u.by = a.by
       /\ \A u \in CommittedRows(uses) :
            Cardinality({a \in CommittedAccounts : a.did = u.usedBy}) = 1
  /\ \A a \in CommittedAccounts :
       /\ Cardinality({x \in CommittedRows(repos) : x.did = a.did}) = 1
       /\ Cardinality({x \in CommittedRows(tokens) : x.did = a.did}) = 1

\* C19 witness: with invites required, a request has committed its account
\* with the use row of its code, and a concurrent request has ended too.
C19_Witness ==
  /\ inviteRequired
  /\ \E r, s \in Reqs :
       /\ r # s /\ pc[r] = "done" /\ Final(s)
       /\ \E a \in CommittedAccounts, u \in CommittedRows(uses) :
            a.by = r /\ u.usedBy = a.did /\ u.code = input[r].inviteCode

\* ------------------------------------------------------------------ C20
Running(r) == pc[r] \notin {"idle", "done", "failed"}

AllEnded == \A r \in Reqs : ~ Running(r)

\* C20: under that scheduling every request ends, committed or failed, and
\* stays ended (so no state is reachable in which a running request waits
\* for ever); and the only way a request leaves its locked select is with
\* the lock on the row of its code granted to it, so that a request waiting
\* behind a lock is granted it.
C20_Termination ==
  /\ <>[]AllEnded
  /\ [][\A r \in Reqs :
          (pc[r] = "inviteSelect" /\ pc'[r] # "inviteSelect") =>
            /\ pc'[r] = "inviteCount"
            /\ (forUpdate /\ input[r].inviteCode \in DOMAIN inviteTable) =>
                 /\ lockHolder[input[r].inviteCode] \in {0, r}
                 /\ lockHolder'[input[r].inviteCode] = r]_vars

\* C20 witness: two requests used the same invite code under row locking; one
\* has committed and released the lock, the other holds it now and goes on.
C20_Witness ==
  \E r, s \in Reqs :
    /\ r # s /\ pc[s] = "done"
    /\ input[r].inviteCode = input[s].inviteCode
    /\ input[r].inviteCode \in Codes
    /\ lockHolder[input[r].inviteCode] = r
    /\ pc[r] = "inviteCount"

=============================================================================
